---- MODULE Spec2Model ----
(***************************************************************************)
(* Set cover instances (ORFile.py) and the exhaustive optimum search       *)
(* (set-cover-approx.py).                                                  *)
(*                                                                         *)
(* Python values are represented as follows: a list is a sequence, a set   *)
(* or frozenset of integers is a set, a dict is a function, and a text     *)
(* file is a sequence of lines.  A failed assertion or a raised exception  *)
(* ends the operation in the control state "error".                        *)
(***************************************************************************)
EXTENDS Integers, Sequences, FiniteSets, TLC

VARIABLES
    pc,         \* control state of the run
    args,       \* arguments handed to SetCover(...)
    set_cover,  \* the SetCover instance built or loaded
    sol,        \* argument of the last check_solution call
    result,     \* value returned by the last check_solution call
    file,       \* the text file, a sequence of lines
    stream,     \* the IntStream: type, ints, next
    ret,        \* integers returned by the last get_int / get_seq call
    loc,        \* local variables of ORFile.__init__ / SetFile.__init__
    orig,       \* the instance handed to write_set_cover
    univ,       \* universe handed to optimum_set_cover
    setlist,    \* candidate sets handed to optimum_set_cover
    solutions,  \* value returned by the top-level sub_cover call
    cover       \* value returned by optimum_set_cover

instVars == <<args, sol, result>>
fileVars == <<file, stream, ret, loc, orig>>
searchVars == <<univ, setlist, solutions, cover>>
vars == <<pc, set_cover, instVars, fileVars, searchVars>>

(***************************************************************************)
(* Bounds of the model.                                                    *)
(***************************************************************************)
MaxU == 2       \* largest universe_count tried
MaxSlots == 2   \* longest list_of_sets / weights tried
MaxW == 2       \* largest weight tried
MaxSol == 2     \* largest family handed to check_solution
MaxLines == 3   \* longest file read through a bare IntStream
MaxTok == 2     \* largest integer token in such a file
MaxCount == 2   \* largest |count| handed to get_seq, and the rewind cap
MaxItems == 2   \* most values listed for one set of an explicit-grammar file
MaxElem == 3    \* size of the element range of the search
MaxCand == 3    \* most candidate sets handed to the search

(***************************************************************************)
(* Python built-ins.                                                       *)
(***************************************************************************)
Range(q) == {q[i] : i \in DOMAIN q}

\* min(S) and max(S) of a non-empty collection of integers
Min(S) == CHOOSE x \in S : \A y \in S : x <= y
Max(S) == CHOOSE x \in S : \A y \in S : y <= x

\* all sequences over S of length at most n
SeqsUpTo(S, n) == UNION {[1..k -> S] : k \in 0..n}

(***************************************************************************)
(* class SetCover                                                          *)
(***************************************************************************)
NoInstance == [ok |-> FALSE]

\* lines 45-47: flatten = set(); for s in list_of_sets: flatten |= s
RECURSIVE FlattenUpTo(_, _)
FlattenUpTo(list_of_sets, n) ==
    IF n = 0 THEN {}
    ELSE FlattenUpTo(list_of_sets, n - 1) \cup list_of_sets[n]

\* the loop of lines 57-58 keeping the first weight seen for a set
RECURSIVE WeightLookupUpTo_FirstWins(_, _, _)
WeightLookupUpTo_FirstWins(list_of_sets, weights, n) ==
    IF n = 0 THEN [s \in {} |-> 0]
    ELSE LET prev == WeightLookupUpTo_FirstWins(list_of_sets, weights, n - 1)
         IN  [s \in (DOMAIN prev) \cup {list_of_sets[n]} |->
                 IF s \in DOMAIN prev THEN prev[s] ELSE weights[n]]

\* lines 56-58: the dict after the first n iterations of
\*   for i, s in enumerate(list_of_sets): weight_lookup[s] = weight_list[i]
RECURSIVE WeightLookupUpTo(_, _, _)
WeightLookupUpTo(list_of_sets, weights, n) ==
    IF n = 0 THEN [s \in {} |-> 0]
    ELSE LET prev == WeightLookupUpTo(list_of_sets, weights, n - 1)
         IN  [s \in (DOMAIN prev) \cup {list_of_sets[n]} |->
                 IF s = list_of_sets[n] THEN weights[n] ELSE prev[s]]

\* SetCover.__init__ accepting a weight of 0 (0 <= min(weights))
SetCoverInit_ZeroWeight(universe_count, list_of_sets, weights) ==
    LET flatten == FlattenUpTo(list_of_sets, Len(list_of_sets))
        passed ==
            /\ 0 < universe_count
            /\ Len(weights) = Len(list_of_sets)
            /\ flatten # {}
            /\ 0 = Min(flatten)
            /\ Max(flatten) = universe_count - 1
            /\ Cardinality(flatten) = universe_count
            /\ weights # << >>
            /\ 0 <= Min(Range(weights))
    IN  IF ~passed THEN NoInstance
        ELSE [ok             |-> TRUE,
              sets           |-> Range(list_of_sets),
              weight_list    |-> weights,
              weight_lookup  |-> WeightLookupUpTo(list_of_sets, weights,
                                                  Len(list_of_sets)),
              inf_weight     |-> Max(Range(weights)) + 1,
              universe_count |-> universe_count]

\* SetCover.__init__: the assertions in source order, then the fields
SetCoverInit(universe_count, list_of_sets, weights) ==
    LET flatten == FlattenUpTo(list_of_sets, Len(list_of_sets))
        passed ==
            /\ 0 < universe_count
            /\ Len(weights) = Len(list_of_sets)
            /\ flatten # {}                      \* min() of an empty set raises
            /\ 0 = Min(flatten)
            /\ Max(flatten) = universe_count - 1
            /\ Cardinality(flatten) = universe_count
            /\ weights # << >>                   \* min() of an empty list raises
            /\ 0 < Min(Range(weights))
    IN  IF ~passed THEN NoInstance
        ELSE [ok             |-> TRUE,
              sets           |-> Range(list_of_sets),
              weight_list    |-> weights,
              weight_lookup  |-> WeightLookupUpTo(list_of_sets, weights,
                                                  Len(list_of_sets)),
              inf_weight     |-> Max(Range(weights)) + 1,
              universe_count |-> universe_count]

set_of_sets(self) == self.sets

universe(self) == 0 .. (self.universe_count - 1)

weight(self, a_set) == self.weight_lookup[a_set]

\* inf_weight returning the largest weight itself
inf_weight_NoMargin(self) == self.inf_weight - 1

inf_weight(self) == self.inf_weight

\* reduce(lambda a, b: a|b, family, set()): the fold visits the members of
\* the family one at a time, in the iteration order of the collection
RECURSIVE ReduceUnion(_)
ReduceUnion(family) ==
    IF family = {} THEN {}
    ELSE LET b == CHOOSE x \in family : TRUE
         IN  ReduceUnion(family \ {b}) \cup b

\* check_solution without the membership test of line 81
check_solution_CoverOnly(self, family) ==
    ReduceUnion(family) = universe(self)

check_solution(self, family) ==
    IF \E s \in family : s \notin self.sets
    THEN FALSE
    ELSE ReduceUnion(family) = universe(self)

(***************************************************************************)
(* Text files.  A line is what line.strip() leaves of it: nothing (a blank *)
(* line), a '#' comment, the pseudo-comment '##setfile', or one or more    *)
(* whitespace-separated integers.                                          *)
(***************************************************************************)
BlankLine == [kind |-> "blank", toks |-> << >>]
CommentLine == [kind |-> "comment", toks |-> << >>]
MarkerLine == [kind |-> "marker", toks |-> << >>]
IntsLine(toks) == [kind |-> "ints", toks |-> toks]

\* the line left by writing each of toks with '{} ' and then a newline
WrittenLine(toks) == IF toks = << >> THEN BlankLine ELSE IntsLine(toks)

(***************************************************************************)
(* class IntStream                                                         *)
(***************************************************************************)
NoStream == [type |-> "orfile", ints |-> << >>, next |-> 0]

\* the while loop of IntStream.__init__, about to look at line k of the file;
\* readline() returns '' at the end of the file, and strip() leaves '' of a
\* blank line
RECURSIVE ReadLines(_, _, _, _)
ReadLines(f, k, type, ints) ==
    IF k > Len(f) \/ f[k].kind = "blank"
    THEN [type |-> type, ints |-> ints, next |-> 0]
    ELSE IF f[k].kind = "ints"
         THEN ReadLines(f, k + 1, type, ints \o f[k].toks)
         ELSE IF f[k].kind = "marker"
              THEN ReadLines(f, k + 1, "setfile", ints)
              ELSE ReadLines(f, k + 1, type, ints)

IntStreamInit(f) == ReadLines(f, 1, "orfile", << >>)

\* q[k] with Python's 0-origin index, negative k counting from the end
PyIndexOk(q, k) == (0 - Len(q)) <= k /\ k < Len(q)
PyItem(q, k) == IF k >= 0 THEN q[k + 1] ELSE q[Len(q) + k + 1]

\* q[a:b] with Python's slice rules
PyClamp(q, a) ==
    IF a < 0 THEN (IF a + Len(q) < 0 THEN 0 ELSE a + Len(q))
    ELSE IF a > Len(q) THEN Len(q) ELSE a
PySlice(q, a, b) ==
    LET lo == PyClamp(q, a)
        hi == PyClamp(q, b)
    IN  IF lo < hi THEN [j \in 1 .. (hi - lo) |-> q[lo + j]] ELSE << >>

\* get_int: [ok, self (the stream afterwards), val]
get_int(self) ==
    IF ~(self.next < Len(self.ints))
    THEN [ok |-> FALSE, self |-> self, val |-> 0]
    ELSE LET after == [self EXCEPT !.next = self.next + 1]
         IN  IF PyIndexOk(self.ints, after.next - 1)
             THEN [ok |-> TRUE, self |-> after,
                   val |-> PyItem(self.ints, after.next - 1)]
             ELSE [ok |-> FALSE, self |-> after, val |-> 0]

\* get_seq: [ok, self (the stream afterwards), val]
get_seq(self, count) ==
    IF ~(self.next + count <= Len(self.ints))
    THEN [ok |-> FALSE, self |-> self, val |-> << >>]
    ELSE LET after == [self EXCEPT !.next = self.next + count]
         IN  [ok |-> TRUE, self |-> after,
              val |-> PySlice(self.ints, after.next - count, after.next)]

assert_empty(self) == self.next = Len(self.ints)

(***************************************************************************)
(* class ORFile and class SetFile.  Each constructor is followed through   *)
(* its header, the iterations of its loop, and its closing statements.     *)
(***************************************************************************)
NoLocals == [universe_count |-> 0, set_count |-> 0, weight_list |-> << >>,
             element_member |-> << >>, i |-> 0]

\* lines 135-140 and 197-200: universe_count, set_count and the weights
ReadHeader(self) ==
    LET r1 == get_int(self)
        r2 == get_int(r1.self)
        r3 == get_seq(r2.self, r2.val)
    IN  IF ~r1.ok THEN [ok |-> FALSE, self |-> r1.self]
        ELSE IF ~r2.ok THEN [ok |-> FALSE, self |-> r2.self]
        ELSE IF ~r3.ok THEN [ok |-> FALSE, self |-> r3.self]
        ELSE [ok |-> TRUE, self |-> r3.self, universe_count |-> r1.val,
              set_count |-> r2.val, weight_list |-> r3.val]

\* lines 143-145: element_member after the first n values of seq have been
\* handled for universe element i
RECURSIVE AppendMember(_, _, _, _)
AppendMember(element_member, seq, n, i) ==
    IF n = 0 THEN element_member
    ELSE LET prev == AppendMember(element_member, seq, n - 1, i)
         IN  [prev EXCEPT ![seq[n]] = Append(@, i)]

\* the order in which Python iterates over a set is not specified: every
\* enumeration of the set is possible
Enumerations(S) == {q \in [1 .. Cardinality(S) -> S] : Range(q) = S}

\* lines 161-164: items[v] after the first n sets of the enumeration
RECURSIVE ItemsUpTo(_, _, _)
ItemsUpTo(order, v, n) ==
    IF n = 0 THEN << >>
    ELSE LET prev == ItemsUpTo(order, v, n - 1)
         IN  IF v \in order[n] THEN Append(prev, n - 1) ELSE prev

\* lines 173-178: the three lines written for each item from item i on
RECURSIVE ItemLines(_, _, _)
ItemLines(order, i, universe_count) ==
    IF i >= universe_count THEN << >>
    ELSE LET ss == ItemsUpTo(order, i, Len(order))
         IN  <<CommentLine,
               IntsLine(<<Len(ss)>>),
               WrittenLine([j \in DOMAIN ss |-> ss[j] + 1])>>
                 \o ItemLines(order, i + 1, universe_count)

\* write_set_cover writing set indices 0-origin (v instead of v+1)
write_set_cover_ZeroOrigin(sc, order) ==
    LET RECURSIVE Lines(_)
        Lines(i) ==
            IF i >= Cardinality(universe(sc)) THEN << >>
            ELSE LET ss == ItemsUpTo(order, i, Len(order))
                 IN  <<CommentLine, IntsLine(<<Len(ss)>>), WrittenLine(ss)>>
                         \o Lines(i + 1)
    IN  <<CommentLine, IntsLine(<<Cardinality(universe(sc))>>),
          CommentLine, IntsLine(<<Cardinality(set_of_sets(sc))>>),
          CommentLine,
          WrittenLine([k \in DOMAIN order |-> weight(sc, order[k])])>>
            \o Lines(0)

\* write_set_cover: the file written for instance sc when set_of_sets() is
\* iterated in the given order
write_set_cover(sc, order) ==
    <<CommentLine, IntsLine(<<Cardinality(universe(sc))>>),
      CommentLine, IntsLine(<<Cardinality(set_of_sets(sc))>>),
      CommentLine,
      WrittenLine([k \in DOMAIN order |-> weight(sc, order[k])])>>
        \o ItemLines(order, 0, Cardinality(universe(sc)))

(***************************************************************************)
(* Idle values of the variables a specification does not use.              *)
(***************************************************************************)
IdleInstance == args = << >> /\ sol = {} /\ result = FALSE

IdleFile ==
    /\ file = << >>
    /\ stream = NoStream
    /\ ret = << >>
    /\ loc = NoLocals
    /\ orig = NoInstance

IdleSearch == univ = {} /\ setlist = {} /\ solutions = {} /\ cover = {}

(***************************************************************************)
(* Specification SpecInstance: a SetCover is constructed from arbitrary    *)
(* arguments and, when construction succeeds, is asked to check families.  *)
(***************************************************************************)
\* element values offered to the constructor: one negative value, and values
\* that are >= universe_count whenever universe_count < MaxU
Elems == (0 - 1) .. (MaxU - 1)

ArgSpace ==
    [universe_count : 0 .. MaxU,
     list_of_sets   : SeqsUpTo(SUBSET Elems, MaxSlots),
     weights        : SeqsUpTo(0 .. MaxW, MaxSlots)]

\* families handed to check_solution: sets of frozensets, stored or not
Families == {f \in SUBSET (SUBSET (0 .. (MaxU - 1))) : Cardinality(f) <= MaxSol}

InitInstance ==
    /\ pc = "new"
    /\ args \in ArgSpace
    /\ set_cover = NoInstance
    /\ sol = {}
    /\ result = FALSE
    /\ IdleFile
    /\ IdleSearch

Construct ==
    /\ pc = "new"
    /\ set_cover' = SetCoverInit(args.universe_count, args.list_of_sets,
                                 args.weights)
    /\ pc' = IF set_cover'.ok THEN "ready" ELSE "error"
    /\ UNCHANGED <<args, sol, result, fileVars, searchVars>>

CheckSolution ==
    /\ pc = "ready"
    /\ \E family \in Families :
          /\ sol' = family
          /\ result' = check_solution(set_cover, family)
    /\ pc' = "checked"
    /\ UNCHANGED <<args, set_cover, fileVars, searchVars>>

NextInstance == Construct \/ CheckSolution

SpecInstance == InitInstance /\ [][NextInstance]_vars

(***************************************************************************)
(* Claims about SetCover, checked under SpecInstance.                      *)
(***************************************************************************)
\* C2: check_solution(sol) returns true exactly when every member of sol is
\* a stored candidate set and the union of sol is {0..universe_count-1}; it
\* returns false for the empty family and for a covering family that holds
\* a set that is not stored.
C2_CheckSolutionIff ==
    pc = "checked" =>
        /\ result <=>
              /\ \A s \in sol : s \in set_of_sets(set_cover)
              /\ UNION sol = 0 .. (args.universe_count - 1)
        /\ sol = {} => ~result
        /\ (\E s \in sol : s \notin set_of_sets(set_cover)) => ~result

\* a covering family with an invented set has been rejected
C2_Witness ==
    /\ pc = "checked"
    /\ ~result
    /\ UNION sol = 0 .. (args.universe_count - 1)
    /\ \E s \in sol : s \notin set_of_sets(set_cover)
    /\ \E s \in sol : s \in set_of_sets(set_cover)

BadArgs(a) ==
    \/ a.universe_count <= 0
    \/ UNION Range(a.list_of_sets) # 0 .. (a.universe_count - 1)
    \/ \E i \in DOMAIN a.weights : a.weights[i] <= 0

\* C3: construction fails when universe_count <= 0, when the union of the
\* supplied sets is not exactly {0..universe_count-1}, or when a weight is
\* <= 0; a constructed instance has union(set_of_sets()) = universe(),
\* |universe()| = universe_count and weight(s) > 0 for every stored set.
C3_ConstructionValidates ==
    pc # "new" =>
        /\ BadArgs(args) => ~set_cover.ok
        /\ set_cover.ok =>
              /\ UNION set_of_sets(set_cover) = universe(set_cover)
              /\ Cardinality(universe(set_cover)) = args.universe_count
              /\ set_cover.universe_count = args.universe_count
              /\ \A s \in set_of_sets(set_cover) : weight(set_cover, s) > 0

\* construction was refused only because a set holds an element
\* >= universe_count
C3_Witness ==
    /\ pc = "error"
    /\ args.universe_count > 0
    /\ Len(args.weights) = Len(args.list_of_sets)
    /\ \A i \in DOMAIN args.weights : args.weights[i] > 0
    /\ 0 .. (args.universe_count - 1) \subseteq UNION Range(args.list_of_sets)
    /\ \E e \in UNION Range(args.list_of_sets) : e >= args.universe_count
    /\ \A e \in UNION Range(args.list_of_sets) : e >= 0

\* sum of weight(s) over the sets s of a family
RECURSIVE FamilyWeight(_, _)
FamilyWeight(self, family) ==
    IF family = {} THEN 0
    ELSE LET s == CHOOSE x \in family : TRUE
         IN  weight(self, s) + FamilyWeight(self, family \ {s})

\* C9 as stated: inf_weight() is greater than the total weight of every
\* family accepted by check_solution.
C9_ExceedsEverySolution ==
    (pc = "checked" /\ result) =>
        inf_weight(set_cover) > FamilyWeight(set_cover, sol)

\* C9 as amended: inf_weight() equals max(weights) + 1 and is greater than
\* the weight of every single stored candidate set.
C9_ExceedsEverySet ==
    set_cover.ok =>
        /\ \A i \in DOMAIN args.weights : inf_weight(set_cover) > args.weights[i]
        /\ \E i \in DOMAIN args.weights :
              inf_weight(set_cover) = args.weights[i] + 1
        /\ \A s \in set_of_sets(set_cover) :
              inf_weight(set_cover) > weight(set_cover, s)

\* an accepted family of two sets weighs at least inf_weight()
C9_Witness ==
    /\ pc = "checked"
    /\ result
    /\ Cardinality(sol) >= 2
    /\ FamilyWeight(set_cover, sol) >= inf_weight(set_cover)

(***************************************************************************)
(* Specification SpecStream: a file is read into an IntStream, and the     *)
(* stream is then consumed by arbitrary get_int / get_seq / assert_empty   *)
(* calls.                                                                  *)
(***************************************************************************)
StreamLines ==
    {BlankLine, CommentLine, MarkerLine, IntsLine(<<1, 2>>)}
        \cup {IntsLine(<<t>>) : t \in 1 .. MaxTok}

InitStream ==
    /\ pc = "closed"
    /\ file \in SeqsUpTo(StreamLines, MaxLines)
    /\ stream = NoStream
    /\ ret = << >>
    /\ loc = NoLocals
    /\ orig = NoInstance
    /\ set_cover = NoInstance
    /\ IdleInstance
    /\ IdleSearch

StreamOpen ==
    /\ pc = "closed"
    /\ stream' = IntStreamInit(file)
    /\ pc' = "open"
    /\ UNCHANGED <<file, ret, loc, orig, set_cover, instVars, searchVars>>

GetInt ==
    /\ pc = "open"
    /\ LET r == get_int(stream)
       IN  /\ stream' = r.self
           /\ ret' = IF r.ok THEN <<r.val>> ELSE << >>
           /\ pc' = IF r.ok THEN "open" ELSE "error"
    /\ UNCHANGED <<file, loc, orig, set_cover, instVars, searchVars>>

GetSeq ==
    /\ pc = "open"
    /\ \E count \in (0 - MaxCount) .. MaxCount :
          /\ stream.next + count >= 0 - MaxCount
          /\ LET r == get_seq(stream, count)
             IN  /\ stream' = r.self
                 /\ ret' = r.val
                 /\ pc' = IF r.ok THEN "open" ELSE "error"
    /\ UNCHANGED <<file, loc, orig, set_cover, instVars, searchVars>>

AssertEmpty ==
    /\ pc = "open"
    /\ pc' = IF assert_empty(stream) THEN "drained" ELSE "error"
    /\ UNCHANGED <<file, stream, ret, loc, orig, set_cover, instVars,
                   searchVars>>

NextStream == StreamOpen \/ GetInt \/ GetSeq \/ AssertEmpty

SpecStream == InitStream /\ [][NextStream]_vars

(***************************************************************************)
(* Claims about IntStream, checked under SpecStream.                       *)
(***************************************************************************)
NotBlank(line) == line.kind # "blank"

\* C6: blank lines are ignored: the integers and the grammar mode read from
\* a file are those read from the same file with its blank lines removed.
C6_BlankLinesIgnored ==
    pc = "open" =>
        LET expected == IntStreamInit(SelectSeq(file, NotBlank))
        IN  /\ stream.ints = expected.ints
            /\ stream.type = expected.type

\* C7: the position of the stream never decreases.
C7_ForwardOnly == [][stream'.next >= stream.next]_vars

(***************************************************************************)
(* Loading a file: ORFile.__init__, which hands a '##setfile' stream over  *)
(* to SetFile.__init__.                                                    *)
(***************************************************************************)
ORFileOpen ==
    /\ pc = "closed"
    /\ stream' = IntStreamInit(file)
    /\ pc' = IF stream'.type = "setfile" THEN "setfile_header"
                                           ELSE "orfile_header"
    /\ UNCHANGED <<file, ret, loc, orig, set_cover, instVars, searchVars>>

ORFileHeader ==
    /\ pc = "orfile_header"
    /\ LET h == ReadHeader(stream)
       IN  /\ stream' = h.self
           /\ IF h.ok
              THEN /\ loc' = [universe_count |-> h.universe_count,
                              set_count      |-> h.set_count,
                              weight_list    |-> h.weight_list,
                              element_member |->
                                  [k \in 1 .. h.set_count |-> << >>],
                              i              |-> 0]
                   /\ pc' = "orfile_items"
              ELSE /\ loc' = loc
                   /\ pc' = "error"
    /\ UNCHANGED <<file, ret, orig, set_cover, instVars, searchVars>>

\* one iteration of the loop of lines 141-145
ORFileItem ==
    /\ pc = "orfile_items"
    /\ loc.i < loc.universe_count
    /\ LET rc == get_int(stream)
           rs == get_seq(rc.self, rc.val)
       IN  IF ~rc.ok
           THEN stream' = rc.self /\ ret' = ret /\ loc' = loc /\ pc' = "error"
           ELSE /\ stream' = rs.self
                /\ ret' = rs.val
                /\ IF /\ rs.ok
                      /\ \A j \in DOMAIN rs.val :
                            1 <= rs.val[j] /\ rs.val[j] <= Len(loc.element_member)
                   THEN /\ loc' = [loc EXCEPT
                                     !.element_member =
                                         AppendMember(@, rs.val, Len(rs.val),
                                                      loc.i),
                                     !.i = loc.i + 1]
                        /\ pc' = "orfile_items"
                   ELSE loc' = loc /\ pc' = "error"
    /\ UNCHANGED <<file, orig, set_cover, instVars, searchVars>>

\* lines 146-148
ORFileFinish ==
    /\ pc = "orfile_items"
    /\ loc.i >= loc.universe_count
    /\ IF assert_empty(stream)
       THEN /\ set_cover' =
                   SetCoverInit(loc.universe_count,
                                [k \in DOMAIN loc.element_member |->
                                    Range(loc.element_member[k])],
                                loc.weight_list)
            /\ pc' = IF set_cover'.ok THEN "loaded" ELSE "error"
       ELSE set_cover' = set_cover /\ pc' = "error"
    /\ UNCHANGED <<file, stream, ret, loc, orig, instVars, searchVars>>

SetFileHeader ==
    /\ pc = "setfile_header"
    /\ LET h == ReadHeader(stream)
       IN  /\ stream' = h.self
           /\ IF h.ok
              THEN /\ loc' = [universe_count |-> h.universe_count,
                              set_count      |-> h.set_count,
                              weight_list    |-> h.weight_list,
                              element_member |-> << >>,
                              i              |-> 0]
                   /\ pc' = "setfile_items"
              ELSE /\ loc' = loc
                   /\ pc' = "error"
    /\ UNCHANGED <<file, ret, orig, set_cover, instVars, searchVars>>

\* one iteration of the loop of lines 201-206
SetFileItem ==
    /\ pc = "setfile_items"
    /\ loc.i < loc.set_count
    /\ LET rc == get_int(stream)
           rs == get_seq(rc.self, rc.val)
           s  == Range(rs.val)
       IN  IF ~rc.ok
           THEN stream' = rc.self /\ ret' = ret /\ loc' = loc /\ pc' = "error"
           ELSE /\ stream' = rs.self
                /\ ret' = rs.val
                /\ IF /\ rs.ok
                      /\ \A v \in s : v \in 0 .. (loc.universe_count - 1)
                      /\ s \notin Range(loc.element_member)
                   THEN /\ loc' = [loc EXCEPT
                                     !.element_member = Append(@, s),
                                     !.i = loc.i + 1]
                        /\ pc' = "setfile_items"
                   ELSE loc' = loc /\ pc' = "error"
    /\ UNCHANGED <<file, orig, set_cover, instVars, searchVars>>

\* lines 207-208
SetFileFinish ==
    /\ pc = "setfile_items"
    /\ loc.i >= loc.set_count
    /\ IF assert_empty(stream)
       THEN /\ set_cover' = SetCoverInit(loc.universe_count,
                                         loc.element_member, loc.weight_list)
            /\ pc' = IF set_cover'.ok THEN "loaded" ELSE "error"
       ELSE set_cover' = set_cover /\ pc' = "error"
    /\ UNCHANGED <<file, stream, ret, loc, orig, instVars, searchVars>>

NextLoad ==
    \/ ORFileOpen
    \/ ORFileHeader
    \/ ORFileItem
    \/ ORFileFinish
    \/ SetFileHeader
    \/ SetFileItem
    \/ SetFileFinish

(***************************************************************************)
(* Files.  A file lists universe_count, set_count, the weights and then    *)
(* one group (a count and that many values) per line; a '##setfile' line   *)
(* and a blank line may be placed before any of these lines.               *)
(***************************************************************************)
\* the lines with a blank line before line blank (0: none) and the marker
\* before line marker (0: none), from line k on
RECURSIVE Layout(_, _, _, _)
Layout(lines, k, blank, marker) ==
    IF k > Len(lines) THEN << >>
    ELSE (IF blank = k THEN <<BlankLine>> ELSE << >>)
             \o (IF marker = k THEN <<MarkerLine>> ELSE << >>)
             \o <<lines[k]>>
             \o Layout(lines, k + 1, blank, marker)

GroupLines(groups) ==
    [k \in DOMAIN groups |-> IntsLine(<<Len(groups[k])>> \o groups[k])]

FileLines(universe_count, weights, groups) ==
    <<IntsLine(<<universe_count>>), IntsLine(<<Len(weights)>>),
      IntsLine(weights)>> \o GroupLines(groups)

\* the members of S in increasing order
RECURSIVE Ascending(_)
Ascending(S) ==
    IF S = {} THEN << >> ELSE <<Min(S)>> \o Ascending(S \ {Min(S)})

\* indexed grammar: for each universe element the indices (1-origin) of the
\* sets that hold it, in increasing order
IndexedFile(universe_count, weights, member, blank, marker) ==
    Layout(FileLines(universe_count, weights,
                     [e \in 1 .. universe_count |-> Ascending(member[e])]),
           1, blank, marker)

\* explicit grammar: for each set its values (0-origin), in any order and
\* with repetitions
ExplicitFile(universe_count, weights, groups, blank, marker) ==
    Layout(FileLines(universe_count, weights, groups), 1, blank, marker)

(***************************************************************************)
(* Specification SpecFile: an instance is written with write_set_cover and *)
(* read back, or an indexed-grammar file is loaded.  In such a file an     *)
(* index may exceed set_count, a blank line may precede any line and the   *)
(* marker may stand at the top or just before the list of sets.            *)
(***************************************************************************)
WriteArgSpace ==
    [universe_count : 1 .. MaxU,
     list_of_sets   : SeqsUpTo(SUBSET (0 .. (MaxU - 1)), MaxSlots),
     weights        : SeqsUpTo(1 .. MaxW, MaxSlots)]

InitFile ==
    /\ \/ /\ pc = "built"
          /\ file = << >>
          /\ \E a \in WriteArgSpace :
                /\ SetCoverInit(a.universe_count, a.list_of_sets,
                                a.weights).ok
                /\ orig = SetCoverInit(a.universe_count, a.list_of_sets,
                                       a.weights)
       \/ /\ pc = "closed"
          /\ \E u \in 1 .. MaxU, n \in 1 .. MaxSlots :
                \E w \in [1 .. n -> 1 .. MaxW],
                   member \in [1 .. u -> SUBSET (1 .. MaxSlots)],
                   blank \in 0 .. (u + 3),
                   marker \in {0, 1, 4} :
                    file = IndexedFile(u, w, member, blank, marker)
          /\ orig = NoInstance
    /\ stream = NoStream
    /\ ret = << >>
    /\ loc = NoLocals
    /\ set_cover = NoInstance
    /\ IdleInstance
    /\ IdleSearch

WriteSetCover ==
    /\ pc = "built"
    /\ \E order \in Enumerations(set_of_sets(orig)) :
          file' = write_set_cover(orig, order)
    /\ pc' = "closed"
    /\ UNCHANGED <<stream, ret, loc, orig, set_cover, instVars, searchVars>>

NextFile == WriteSetCover \/ NextLoad

SpecFile == InitFile /\ [][NextFile]_vars

(***************************************************************************)
(* Claims about the indexed grammar and write_set_cover, checked under     *)
(* SpecFile.                                                               *)
(***************************************************************************)
\* the membership of each set slot produced by the inversion of line 145
Slots == [k \in DOMAIN loc.element_member |-> Range(loc.element_member[k])]

\* C4: when several slots of an indexed-grammar file have the same
\* membership, the instance stores that set once and its weight is the
\* weight of the last such slot.
C4_LastWeightWins ==
    (pc = "loaded" /\ stream.type = "orfile") =>
        /\ set_of_sets(set_cover) = Range(Slots)
        /\ \A s \in set_of_sets(set_cover) :
              weight(set_cover, s) =
                  loc.weight_list[Max({k \in DOMAIN Slots : Slots[k] = s})]

\* a loaded file had two slots with the same non-empty membership and
\* different weights
C4_Witness ==
    /\ pc = "loaded"
    /\ stream.type = "orfile"
    /\ orig = NoInstance
    /\ \E j, k \in DOMAIN Slots :
          /\ j < k
          /\ Slots[j] = Slots[k]
          /\ Slots[j] # {}
          /\ loc.weight_list[j] # loc.weight_list[k]

\* C5: an instance written by write_set_cover and read back by ORFile is
\* loaded, with the same universe_count, the same candidate sets and the
\* same weight for every candidate set.
C5_RoundTrip ==
    orig.ok =>
        /\ pc # "error"
        /\ pc = "loaded" =>
              /\ set_cover.universe_count = orig.universe_count
              /\ set_of_sets(set_cover) = set_of_sets(orig)
              /\ \A s \in set_of_sets(orig) :
                    weight(set_cover, s) = weight(orig, s)

\* an instance holding the empty set and another set has been read back
C5_Witness ==
    /\ pc = "loaded"
    /\ orig.ok
    /\ {} \in set_of_sets(orig)
    /\ Cardinality(set_of_sets(orig)) >= 2
    /\ \E s, t \in set_of_sets(orig) : weight(orig, s) # weight(orig, t)

(***************************************************************************)
(* Specification SpecExplicit: an explicit-grammar file is loaded.  A      *)
(* value may reach or exceed universe_count, and the marker and a blank    *)
(* line may precede any line.                                              *)
(***************************************************************************)
InitExplicit ==
    /\ pc = "closed"
    /\ \E u \in 1 .. MaxU, n \in 1 .. MaxSlots :
          \E w \in [1 .. n -> 1 .. MaxW],
             groups \in [1 .. n -> SeqsUpTo(0 .. (MaxU - 1), MaxItems)],
             blank \in 0 .. (n + 3),
             marker \in 1 .. (n + 3) :
              file = ExplicitFile(u, w, groups, blank, marker)
    /\ orig = NoInstance
    /\ stream = NoStream
    /\ ret = << >>
    /\ loc = NoLocals
    /\ set_cover = NoInstance
    /\ IdleInstance
    /\ IdleSearch

SpecExplicit == InitExplicit /\ [][NextLoad]_vars

(***************************************************************************)
(* Claims about the explicit grammar, checked under SpecExplicit.          *)
(***************************************************************************)
\* the integers of a file, blank and comment lines contributing none
RECURSIVE AllInts(_, _)
AllInts(f, k) ==
    IF k > Len(f) THEN << >>
    ELSE (IF f[k].kind = "ints" THEN f[k].toks ELSE << >>) \o AllInts(f, k + 1)

\* the sets declared by the groups of an explicit-grammar integer list:
\* n groups from position pos on
RECURSIVE DeclaredFrom(_, _, _)
DeclaredFrom(ints, pos, n) ==
    IF n = 0 THEN << >>
    ELSE <<{ints[pos + j] : j \in 1 .. ints[pos]}>>
             \o DeclaredFrom(ints, pos + ints[pos] + 1, n - 1)

DeclaredSets(f) ==
    LET ints == AllInts(f, 1)
    IN  DeclaredFrom(ints, ints[2] + 3, ints[2])

\* C8: loading a '##setfile' file in which two declared set slots hold the
\* same elements fails and produces no instance.
C8_DuplicateSlotsRejected ==
    (/\ \E k \in DOMAIN file : file[k].kind = "marker"
     /\ \E j, k \in DOMAIN DeclaredSets(file) :
           j < k /\ DeclaredSets(file)[j] = DeclaredSets(file)[k])
        => (pc # "loaded" /\ ~set_cover.ok)

(***************************************************************************)
(* The exhaustive search of set-cover-approx.py.  next(iter(setlist))      *)
(* yields the candidate sets in an order that is not specified, so a call  *)
(* of sub_cover is described by the set of values it can return.           *)
(***************************************************************************)
RECURSIVE sub_cover(_, _)

\* get_subsols returning the sub-solutions without adding s to them
get_subsols_DropsS(s, setlist_, uncovered) ==
    sub_cover(uncovered, setlist_ \ {s})

\* get_subsols: one returned value for each value the inner sub_cover call
\* can return
get_subsols(s, setlist_, uncovered) ==
    {{subs \cup {s} : subs \in subsols} :
        subsols \in sub_cover(uncovered, setlist_ \ {s})}

sub_cover(uncovered, setlist_) ==
    IF setlist_ = {} THEN {{}}
    ELSE UNION {
        LET new_uncovered == uncovered \ s
            used == IF new_uncovered = {}
                    THEN {{{s}}}
                    ELSE get_subsols(s, setlist_, new_uncovered)
        IN  {a \cup b : a \in used, b \in sub_cover(uncovered, setlist_ \ {s})}
        : s \in setlist_}

\* min(...) returning any of the solutions
Smallest_Any(sols) == sols

\* line 84: the values min(solutions, key=len) can return
Smallest(sols) == {c \in sols : \A d \in sols : Cardinality(c) <= Cardinality(d)}

(***************************************************************************)
(* Specification SpecSearch: optimum_set_cover(universe, setlist).         *)
(***************************************************************************)
InitSearch ==
    /\ pc = "search"
    /\ univ \in (SUBSET (0 .. (MaxElem - 1))) \ {{}}
    /\ setlist \in {L \in SUBSET (SUBSET (0 .. (MaxElem - 1))) :
                        Cardinality(L) <= MaxCand}
    /\ solutions = {}
    /\ cover = {}
    /\ set_cover = NoInstance
    /\ IdleInstance
    /\ IdleFile

\* line 82
SubCover ==
    /\ pc = "search"
    /\ solutions' \in sub_cover(univ, setlist)
    /\ pc' = "enumerated"
    /\ UNCHANGED <<univ, setlist, cover, set_cover, instVars, fileVars>>

\* line 84; min() of an empty collection raises
Optimum ==
    /\ pc = "enumerated"
    /\ IF solutions = {}
       THEN cover' = cover /\ pc' = "error"
       ELSE cover' \in Smallest(solutions) /\ pc' = "done"
    /\ UNCHANGED <<univ, setlist, solutions, set_cover, instVars, fileVars>>

NextSearch == SubCover \/ Optimum

SpecSearch == InitSearch /\ [][NextSearch]_vars

(***************************************************************************)
(* Claims about the search, checked under SpecSearch.                      *)
(***************************************************************************)
Covers(F) == univ \subseteq UNION F

\* the instance invariant: the universe is {0..n-1} for some n > 0 and is
\* exactly the union of the candidate sets
ValidInstance ==
    /\ univ = 0 .. (Cardinality(univ) - 1)
    /\ UNION setlist = univ

\* C1: on a valid instance optimum_set_cover returns a family of candidate
\* sets whose union is the universe and that is no larger than any covering
\* family of candidate sets, whatever the order of the picks.
C1_OptimumIsMinimumCover ==
    ValidInstance =>
        /\ pc # "error"
        /\ pc = "done" =>
              /\ cover \subseteq setlist
              /\ UNION cover = univ
              /\ \A F \in SUBSET setlist :
                    UNION F = univ => Cardinality(F) >= Cardinality(cover)

\* three candidate sets are all needed: the optimum has three sets
C1_Witness ==
    /\ pc = "done"
    /\ ValidInstance
    /\ Cardinality(cover) = 3
    /\ Cardinality(univ) = 3

Minimal(F) ==
    /\ F \subseteq setlist
    /\ Covers(F)
    /\ \A s \in F : ~Covers(F \ {s})

\* C10: the value of sub_cover(U, L) holds every minimal covering family,
\* whatever the order of the picks, and is empty when L cannot cover U.
C10_AllMinimalFamilies ==
    pc \in {"enumerated", "done", "error"} =>
        /\ \A F \in SUBSET setlist : Minimal(F) => F \in solutions
        /\ ~Covers(setlist) => solutions = {}

\* two different minimal covering families were both returned, together
\* with a covering family that is not minimal
C10_Witness ==
    /\ pc = "enumerated"
    /\ \E F, G \in solutions :
          F # G /\ Minimal(F) /\ Minimal(G) /\ Cardinality(F) # Cardinality(G)
    /\ \E H \in solutions : ~Minimal(H)

====
